---- MODULE Spec2Model ----
(***************************************************************************)
(* A model of src/main.cpp: the escape-time evaluator                      *)
(* get_number_of_iterations, the coordinate mapper get_scaled_coordinate,  *)
(* the offset helper offset_in_interleaved_1d_vec and the grid traversal   *)
(* of create_grayscale_mandelbrot_image.                                   *)
(*                                                                         *)
(* Numbers.  A double is modelled by the integer it holds.  Every input is *)
(* drawn from the integer-valued doubles for which each operation of the   *)
(* code (+, -, *, /, the complex product, std::abs compared with the       *)
(* bound) is exact in IEEE-754 binary64: size is even and a multiple of    *)
(* pixels_wide, so size / 2 and (size * xy) / pixels_wide are integers,    *)
(* and all magnitudes stay far below 2^53.  A complex<double> is a pair    *)
(* <<re, im>>.  An int is a 32-bit two's-complement integer; the one       *)
(* product the code forms in int, pixels_wide * pixels_wide, keeps its     *)
(* width (int_mul).                                                        *)
(***************************************************************************)
EXTENDS Integers, Sequences, FiniteSets

(***************************************************************************)
(* Bounds of the model.                                                    *)
(***************************************************************************)
\* small values of max_iterations: 1 .. MaxIter (0 .. MaxIter for the evaluator alone)
MaxIter == 3
\* small values of pixels_wide: 1 .. MaxPixelsWide
MaxPixelsWide == 3
\* values of size: the even multiples of pixels_wide in 1 .. MaxSize
MaxSize == 6
\* center_x, center_y in -MaxCenter .. MaxCenter
MaxCenter == 2
\* the evaluator alone: re, im of the point in -MaxCoord .. MaxCoord
MaxCoord == 3
\* the evaluator alone: the bound in -1 .. MaxBound
MaxBound == 3

(***************************************************************************)
(* Program constants.                                                      *)
(***************************************************************************)
\* the largest int (pixels_wide and max_iterations are int)
INT_MAX == 2147483647
\* the number of values of a std::uint8_t, the element type of the image
UINT8_RANGE == 256
\* the template argument of offset_in_interleaved_1d_vec<1>
channel_count == 1

\* values of max_iterations around the range of a byte
LargeIters == {255, 256, 257}
\* values of pixels_wide whose square does not fit an int: 46341 is the least
\* (46341^2 = 2^31 + 4633), 65536 squares to 2^32
OverflowWidths == {46341, 65536}

VARIABLES
    center_x, center_y, size, max_iterations, pixels_wide,  \* the parameters
    pc,             \* the position in create_grayscale_mandelbrot_image
    image,          \* the vector: a function from 0 .. n-1 to bytes
    x, y,           \* the loop counters
    z0,             \* the evaluator's parameter (the point c)
    z, i,           \* the evaluator's locals
    iterations,     \* the evaluator's result
    gray, offset,   \* the locals of the loop body
    calls,          \* observer: evaluator calls made so far
    checks,         \* observer: bound checks of the current evaluator call
    updates,        \* observer: recurrence updates of the current evaluator call
    writes,         \* observer: how often each offset was written
    grays,          \* observer: <<x, y, gray>> of every pixel stored so far
    owner,          \* row-partitioned traversal: the worker that owns each row
    wpc, wx, wy,    \* row-partitioned traversal: each worker's position
    wgray,          \* row-partitioned traversal: each worker's local gray
    writers         \* observer: the workers that wrote each offset

vars == <<center_x, center_y, size, max_iterations, pixels_wide, pc, image, x, y,
          z0, z, i, iterations, gray, offset, calls, checks, updates, writes,
          grays, owner, wpc, wx, wy, wgray, writers>>

params == <<center_x, center_y, size, max_iterations, pixels_wide>>
workervars == <<owner, wpc, wx, wy, wgray, writers>>

(***************************************************************************)
(* std::complex<double> arithmetic on pairs.                               *)
(***************************************************************************)
complex_mul(a, b) == <<a[1] * b[1] - a[2] * b[2], a[1] * b[2] + a[2] * b[1]>>

complex_add(a, b) == <<a[1] + b[1], a[2] + b[2]>>

\* a mutant of abs_exceeds: >= for >
abs_exceeds_or_equals(w, bound) ==
    IF bound < 0 THEN TRUE ELSE w[1] * w[1] + w[2] * w[2] >= bound * bound

\* std::abs(w) > bound.  std::abs is sqrt(re^2 + im^2) >= 0, so the test is
\* true of every w when bound < 0, and compares the squares otherwise.
abs_exceeds(w, bound) ==
    IF bound < 0 THEN TRUE ELSE w[1] * w[1] + w[2] * w[2] > bound * bound

(***************************************************************************)
(* get_number_of_iterations, lines 24-38.                                  *)
(***************************************************************************)
\* a mutant of z_initial: the textbook initialisation z := 0
z_initial_zero(c) == <<0, 0>>

\* line 27: auto z = z0
z_initial(c) == c

\* line 33: z = (z * z) + z0
z_next(w, c) == complex_add(complex_mul(w, w), c)

RECURSIVE iterate(_, _, _, _, _)
\* the loop of lines 28-37 from counter k with recurrence state w
iterate(w, c, bound, max, k) ==
    IF k < max
    THEN IF abs_exceeds(w, bound) THEN k ELSE iterate(z_next(w, c), c, bound, max, k + 1)
    ELSE max

\* the function as a whole
get_number_of_iterations(c, bound, max) == iterate(z_initial(c), c, bound, max, 0)

(***************************************************************************)
(* offset_in_interleaved_1d_vec, lines 13-21.  The code computes in        *)
(* uint32_t; every offset the model reaches is below 2^31.                 *)
(***************************************************************************)
\* a mutant of offset_in_interleaved_1d_vec: the row stride is lost
offset_without_stride(width, px, py, channel) == (py + px) * channel_count + channel

offset_in_interleaved_1d_vec(width, px, py, channel) ==
    (py * width + px) * channel_count + channel

(***************************************************************************)
(* get_scaled_coordinate, lines 55-57; the lambda captures size and        *)
(* pixels_wide, which are parameters here.                                 *)
(***************************************************************************)
\* a mutant of get_scaled_coordinate: the half-size shift is lost
scaled_coordinate_unshifted(center, xy, sz, pw) == center + ((sz * xy) \div pw)

get_scaled_coordinate(center, xy, sz, pw) == center - (sz \div 2) + ((sz * xy) \div pw)

\* the inputs on which the two divisions of the mapper are exact for every
\* pixel index the run uses (an overflowing width never gets past pixel 0)
ExactScaling(sz, pw) == sz % 2 = 0 /\ (pw \in OverflowWidths \/ sz % pw = 0)

(***************************************************************************)
(* The intensity and its narrowing, lines 70 and 76.                       *)
(***************************************************************************)
\* a mutant of gray_value: the subtraction reversed
gray_value_reversed(max, iters) == iters - max

\* a mutant of gray_value: the count itself is the intensity
gray_value_direct(max, iters) == iters

\* line 70: auto gray = max_iterations - get_number_of_iterations(...)
gray_value(max, iters) == max - iters

\* a mutant of narrow_uint8: saturation instead of wrap-around
narrow_saturating(v) == IF v > UINT8_RANGE - 1 THEN UINT8_RANGE - 1 ELSE IF v < 0 THEN 0 ELSE v

\* line 76: image[offset] = gray, an int converted to std::uint8_t
narrow_uint8(v) == v % UINT8_RANGE

(***************************************************************************)
(* int * int of non-negative ints as a 32-bit build computes it: the low   *)
(* 32 bits of the product read as a signed int.  The product is formed in  *)
(* 16- and 8-bit limbs so that no intermediate leaves 32 bits.             *)
(***************************************************************************)
\* the product of two 16-bit numbers as <<high 16 bits, low 16 bits>>
mul16(a, b) ==
    LET a1 == a \div 256  a0 == a % 256
        b1 == b \div 256  b0 == b % 256
        mid == a1 * b0 + a0 * b1
        s == (mid % 256) * 256 + a0 * b0
    IN <<a1 * b1 + (mid \div 256) + (s \div 65536), s % 65536>>

int_mul(a, b) ==
    LET ah == a \div 65536  al == a % 65536
        bh == b \div 65536  bl == b % 65536
        low == mul16(al, bl)
        hi16 == (low[1] + ((ah * bl) % 65536) + ((al * bh) % 65536)) % 65536
    IN IF hi16 >= 32768 THEN (hi16 - 65536) * 65536 + low[2] ELSE hi16 * 65536 + low[2]

\* the mathematical product of two positive ints exceeds INT_MAX
int_mul_overflows(a, b) == a > INT_MAX \div b

(***************************************************************************)
(* The state after the call of create_grayscale_mandelbrot_image, before   *)
(* its first statement.                                                    *)
(***************************************************************************)
Workers == {1, 2}

\* the values of locals that hold nothing yet
NoPoint == <<0, 0>>

IdleWorkers ==
    /\ owner = <<>>
    /\ wpc = [w \in Workers |-> "idle"]
    /\ wx = [w \in Workers |-> 0]
    /\ wy = [w \in Workers |-> 0]
    /\ wgray = [w \in Workers |-> 0]
    /\ writers = <<>>

IdleLocals ==
    /\ x = 0 /\ y = 0
    /\ z0 = NoPoint /\ z = NoPoint /\ i = 0
    /\ iterations = 0 /\ gray = 0 /\ offset = 0
    /\ calls = 0 /\ checks = 0 /\ updates = 0
    /\ grays = {}

Init ==
    /\ pixels_wide \in (1 .. MaxPixelsWide) \cup OverflowWidths
    /\ size \in {s \in 1 .. MaxSize : ExactScaling(s, pixels_wide)}
    /\ center_x \in -MaxCenter .. MaxCenter
    /\ center_y \in -MaxCenter .. MaxCenter
    /\ max_iterations \in (1 .. MaxIter) \cup LargeIters
    /\ pc = "alloc"
    /\ image = <<>>
    /\ writes = <<>>
    /\ IdleLocals
    /\ IdleWorkers

(***************************************************************************)
(* create_grayscale_mandelbrot_image, lines 45-81.                         *)
(***************************************************************************)
\* std::vector<std::uint8_t>(n, 0) as a function on the offsets 0 .. n-1
zero_vector(n) == [o \in 0 .. n - 1 |-> 0]

\* Line 52.  pixels_wide * pixels_wide is an int product.  When it does not
\* fit an int the behaviour is undefined: a build either wraps (the low 32
\* bits, the usual code) or traps (-ftrapv, a sanitizer).  The int is then
\* converted to size_t: a negative value becomes a size near 2^64 and the
\* constructor throws (std::length_error or std::bad_alloc, by the library).
Allocate ==
    /\ pc = "alloc"
    /\ LET n == int_mul(pixels_wide, pixels_wide)
       IN \/ /\ n >= 0
             /\ image' = zero_vector(n)
             /\ writes' = zero_vector(n)
             /\ pc' = "outer"
          \/ /\ n < 0
             /\ pc' = "alloc_failed"
             /\ UNCHANGED <<image, writes>>
          \/ /\ int_mul_overflows(pixels_wide, pixels_wide)
             /\ pc' = "trapped"
             /\ UNCHANGED <<image, writes>>
    /\ y' = 0
    /\ UNCHANGED <<params, x, z0, z, i, iterations, gray, offset, calls, checks,
                   updates, grays, workervars>>

\* Line 59: the test of the outer loop; a row starts with x = 0 (line 61),
\* the function returns after the last row (line 80).
NextRow ==
    /\ pc = "outer"
    /\ \/ /\ y < pixels_wide
          /\ x' = 0
          /\ pc' = "inner"
       \/ /\ ~(y < pixels_wide)
          /\ pc' = "done"
          /\ UNCHANGED x
    /\ UNCHANGED <<params, image, y, z0, z, i, iterations, gray, offset, calls,
                   checks, updates, writes, grays, workervars>>

\* Lines 61-70: the test of the inner loop, the two mapper calls and the call
\* of the evaluator (its line 27 included); y++ after the last column.
BeginPixel ==
    /\ pc = "inner"
    /\ \/ /\ x < pixels_wide
          /\ LET x0 == get_scaled_coordinate(center_x, x, size, pixels_wide)
                 y0 == get_scaled_coordinate(center_y, y, size, pixels_wide)
             IN /\ z0' = <<x0, y0>>
                /\ z' = z_initial(<<x0, y0>>)
          /\ i' = 0
          /\ calls' = calls + 1
          /\ checks' = 0
          /\ updates' = 0
          /\ pc' = "eval"
          /\ UNCHANGED y
       \/ /\ ~(x < pixels_wide)
          /\ y' = y + 1
          /\ pc' = "outer"
          /\ UNCHANGED <<z0, z, i, calls, checks, updates>>
    /\ UNCHANGED <<params, image, x, iterations, gray, offset, writes, grays,
                   workervars>>

\* Lines 28-34: one pass of the evaluator's loop: the bound check, then either
\* the return of i or the update and i++.
EvalStep ==
    /\ pc = "eval"
    /\ i < max_iterations
    /\ checks' = checks + 1
    /\ \/ /\ abs_exceeds(z, size)
          /\ iterations' = i
          /\ pc' = "ret"
          /\ UNCHANGED <<z, i, updates>>
       \/ /\ ~abs_exceeds(z, size)
          /\ z' = z_next(z, z0)
          /\ i' = i + 1
          /\ updates' = updates + 1
          /\ UNCHANGED <<iterations, pc>>
    /\ UNCHANGED <<params, image, x, y, z0, gray, offset, calls, writes, grays,
                   workervars>>

\* Line 37: the loop ran out; default to max.
EvalDefault ==
    /\ pc = "eval"
    /\ ~(i < max_iterations)
    /\ iterations' = max_iterations
    /\ pc' = "ret"
    /\ UNCHANGED <<params, image, x, y, z0, z, i, gray, offset, calls, checks,
                   updates, writes, grays, workervars>>

\* Lines 70-76 and x++: the intensity, the offset and the store.  operator[]
\* does not check the index: a store past the end of the vector is undefined.
\* It either faults, or lands in memory outside the vector and returns, and
\* the loop goes on (the vector itself is untouched).  The store at offset 0
\* of the empty vector goes through the null data() and can only fault.
\* Init holds no width that reaches the second outcome: the least one is
\* 65537, whose wrapped square is 131073, the offset of pixel (65536, 1).
StorePixel ==
    /\ pc = "ret"
    /\ LET g == gray_value(max_iterations, iterations)
           o == offset_in_interleaved_1d_vec(pixels_wide, x, y, 0)
       IN /\ gray' = g
          /\ offset' = o
          /\ \/ /\ o \in DOMAIN image
                /\ image' = [image EXCEPT ![o] = narrow_uint8(g)]
                /\ writes' = [writes EXCEPT ![o] = @ + 1]
                /\ grays' = grays \cup {<<x, y, g>>}
                /\ x' = x + 1
                /\ pc' = "inner"
             \/ /\ o \notin DOMAIN image
                /\ pc' = "crashed"
                /\ UNCHANGED <<image, writes, grays, x>>
             \/ /\ o \notin DOMAIN image
                /\ ~(DOMAIN image = {} /\ o = 0)
                /\ x' = x + 1
                /\ pc' = "inner"
                /\ UNCHANGED <<image, writes, grays>>
    /\ UNCHANGED <<params, y, z0, z, i, iterations, calls, checks, updates, workervars>>

Next == Allocate \/ NextRow \/ BeginPixel \/ EvalStep \/ EvalDefault \/ StorePixel

Spec == Init /\ [][Next]_vars

(***************************************************************************)
(* The evaluator alone: a call of get_number_of_iterations(z0, size, max)  *)
(* on any point, any bound (negative and zero included) and any max >= 0.  *)
(***************************************************************************)
InitEval ==
    /\ z0 \in (-MaxCoord .. MaxCoord) \X (-MaxCoord .. MaxCoord)
    /\ size \in -1 .. MaxBound
    /\ max_iterations \in (0 .. MaxIter) \cup LargeIters
    /\ z = z_initial(z0)
    /\ i = 0
    /\ pc = "eval"
    /\ center_x = 0 /\ center_y = 0 /\ pixels_wide = 1
    /\ image = <<>> /\ writes = <<>>
    /\ x = 0 /\ y = 0 /\ iterations = 0 /\ gray = 0 /\ offset = 0
    /\ calls = 1 /\ checks = 0 /\ updates = 0
    /\ grays = {}
    /\ IdleWorkers

NextEval == EvalStep \/ EvalDefault

SpecEval == InitEval /\ [][NextEval]_vars

(***************************************************************************)
(* One pixel as a pure function: lines 64-70 and the narrowing of line 76. *)
(* Used where max_iterations is small: the recursion of iterate is as deep *)
(* as the loop is long.                                                    *)
(***************************************************************************)
pixel_gray(px, py) ==
    gray_value(max_iterations,
               get_number_of_iterations(
                   <<get_scaled_coordinate(center_x, px, size, pixels_wide),
                     get_scaled_coordinate(center_y, py, size, pixels_wide)>>,
                   size, max_iterations))

pixel_byte(px, py) == narrow_uint8(pixel_gray(px, py))

(***************************************************************************)
(* The row-partitioned traversal of section 5 of the specification: the    *)
(* rows are shared out among the workers, each worker runs the loop body   *)
(* of lines 61-77 on the pixels of its rows, one step to compute the gray  *)
(* of a pixel and one to store it, and the steps of the workers interleave *)
(* in every order.  The loop body is the code's; the workers are not in    *)
(* the code.                                                               *)
(***************************************************************************)
\* the first row at or after `from` that worker w owns; pixels_wide if none
next_owned_row(w, from) ==
    LET mine == {r \in from .. pixels_wide - 1 : owner[r] = w}
    IN IF mine = {} THEN pixels_wide ELSE CHOOSE r \in mine : \A q \in mine : r <= q

InitPar ==
    /\ pixels_wide \in 1 .. MaxPixelsWide
    /\ size \in {s \in 1 .. MaxSize : ExactScaling(s, pixels_wide)}
    /\ center_x \in -MaxCenter .. MaxCenter
    /\ center_y \in -MaxCenter .. MaxCenter
    /\ max_iterations \in 1 .. MaxIter
    /\ pc = "workers"
    /\ image = zero_vector(pixels_wide * pixels_wide)
    /\ writes = zero_vector(pixels_wide * pixels_wide)
    /\ writers = [o \in 0 .. pixels_wide * pixels_wide - 1 |-> {}]
    /\ IdleLocals
    /\ owner \in [0 .. pixels_wide - 1 -> Workers]
    /\ wy = [w \in Workers |-> next_owned_row(w, 0)]
    /\ wx = [w \in Workers |-> 0]
    /\ wgray = [w \in Workers |-> 0]
    /\ wpc = [w \in Workers |-> IF wy[w] < pixels_wide THEN "pixel" ELSE "done"]

\* lines 64-70 for the worker's pixel
WorkerCompute(w) ==
    /\ wpc[w] = "pixel"
    /\ wgray' = [wgray EXCEPT ![w] = pixel_gray(wx[w], wy[w])]
    /\ wpc' = [wpc EXCEPT ![w] = "store"]
    /\ UNCHANGED <<params, pc, image, x, y, z0, z, i, iterations, gray, offset,
                   calls, checks, updates, writes, grays, owner, wx, wy, writers>>

\* lines 73-76 for the worker's pixel, then the next pixel of its rows
WorkerStore(w) ==
    /\ wpc[w] = "store"
    /\ LET o == offset_in_interleaved_1d_vec(pixels_wide, wx[w], wy[w], 0)
           row == IF wx[w] + 1 < pixels_wide THEN wy[w] ELSE next_owned_row(w, wy[w] + 1)
       IN /\ o \in DOMAIN image
          /\ image' = [image EXCEPT ![o] = narrow_uint8(wgray[w])]
          /\ writes' = [writes EXCEPT ![o] = @ + 1]
          /\ writers' = [writers EXCEPT ![o] = @ \cup {w}]
          /\ wx' = [wx EXCEPT ![w] = IF wx[w] + 1 < pixels_wide THEN wx[w] + 1 ELSE 0]
          /\ wy' = [wy EXCEPT ![w] = row]
          /\ wpc' = [wpc EXCEPT ![w] = IF row < pixels_wide THEN "pixel" ELSE "done"]
    /\ UNCHANGED <<params, pc, x, y, z0, z, i, iterations, gray, offset, calls,
                   checks, updates, grays, owner, wgray>>

NextPar == \E w \in Workers : WorkerCompute(w) \/ WorkerStore(w)

SpecPar == InitPar /\ [][NextPar]_vars

(***************************************************************************)
(* The claims.  Escaped and Orbit restate the mathematics of the claims on *)
(* their own, apart from the operators that model the code.                *)
(***************************************************************************)
\* |p| > bound for the complex number p
Escaped(p, bound) == bound < 0 \/ p[1] * p[1] + p[2] * p[2] > bound * bound

RECURSIVE OrbitFrom(_, _, _)
\* n steps of w -> w*w + c from p (n steps are n/2 steps and then the rest)
OrbitFrom(p, c, n) ==
    IF n = 0 THEN p
    ELSE IF n = 1 THEN <<p[1] * p[1] - p[2] * p[2] + c[1], 2 * p[1] * p[2] + c[2]>>
    ELSE LET q == OrbitFrom(p, c, n \div 2)
         IN IF q \in Int \X Int THEN OrbitFrom(q, c, n - (n \div 2)) ELSE q

\* z_k of the claims: z_0 = c, z_{j+1} = z_j * z_j + c
Orbit(c, k) == OrbitFrom(c, c, k)

\* the evaluator has returned
Returned == pc = "ret"

\* the store of pixel (x - 1, y) into the vector has just happened: gray, offset and
\* iterations are its
JustStored == pc = "inner" /\ x > 0 /\ offset \in DOMAIN image

\* C1: when get_number_of_iterations returns, its result is in 0 .. max_iterations, no
\* z_j with j below the result exceeds the bound, and the result is either max_iterations
\* or an index whose z exceeds the bound: it is the least escaping index, or max.
C1_LeastEscapeIndex ==
    Returned =>
        /\ iterations \in 0 .. max_iterations
        /\ \A j \in 0 .. iterations - 1 : ~Escaped(Orbit(z0, j), size)
        /\ iterations < max_iterations => Escaped(Orbit(z0, iterations), size)

\* C1 witness: a call that returned an escape index after at least two updates
C1_Witness == Returned /\ iterations >= 2 /\ iterations < max_iterations /\ updates = iterations

\* C2: the gray value of every pixel, max_iterations - iterations, is in 0 .. max_iterations
C2_GrayInRange ==
    /\ gray \in 0 .. max_iterations
    /\ \A t \in grays : t[3] \in 0 .. max_iterations
    /\ Returned => max_iterations - iterations \in 0 .. max_iterations

\* C2 witness: a stored pixel whose gray is strictly between the two ends
C2_Witness == JustStored /\ gray > 0 /\ gray < max_iterations /\ max_iterations > 0

\* C3: once allocated, the buffer has exactly pixels_wide * pixels_wide elements (the
\* mathematical product), and the allocation neither throws nor traps
C3_BufferLengthIsSquare ==
    pc # "alloc" =>
        /\ pc \notin {"alloc_failed", "trapped"}
        /\ Cardinality(DOMAIN image) % pixels_wide = 0
        /\ Cardinality(DOMAIN image) \div pixels_wide = pixels_wide

\* C4: every store of the traversal is in bounds and no offset is ever written twice;
\* and when the function returns, every pixel (px, py) has been stored, its offset
\* py * pixels_wide + px is in the buffer and was written exactly once, the offsets are
\* exactly 0 .. pixels_wide^2 - 1, and the byte there is the narrowed gray computed for
\* that pixel.  For the small max_iterations the byte is also compared with pixel_byte,
\* the loop body as a pure function (its recursion is as deep as max_iterations).
C4_FullyPopulatedRowMajor ==
    /\ Returned => y * pixels_wide + x \in DOMAIN image
    /\ pc # "crashed"
    /\ \A o \in DOMAIN writes : writes[o] <= 1
    /\ \A t \in grays :
          /\ t[2] * pixels_wide + t[1] \in DOMAIN image
          /\ image[t[2] * pixels_wide + t[1]] = t[3] % UINT8_RANGE
    /\ pc = "done" =>
          /\ DOMAIN image = 0 .. pixels_wide * pixels_wide - 1
          /\ \A o \in DOMAIN image : writes[o] = 1
          /\ \A px \in 0 .. pixels_wide - 1 : \A py \in 0 .. pixels_wide - 1 :
                /\ \E t \in grays : t[1] = px /\ t[2] = py
                /\ max_iterations <= MaxIter =>
                      image[py * pixels_wide + px] = pixel_byte(px, py)

\* C5 as claimed: a point that never escapes gets the maximum gray max_iterations, a
\* point that escapes gets a strictly smaller gray, and gray 0 goes to the points that
\* escape at once
C5_BoundedIsBrightest ==
    JustStored =>
        /\ iterations = max_iterations => gray = max_iterations
        /\ iterations < max_iterations => gray < max_iterations
        /\ iterations = 0 => gray = 0

\* C5 as amended: gray + iterations = max_iterations, so a point that never escapes gets
\* gray 0, a point that escapes gets a strictly positive gray, the larger the earlier it
\* escapes, and the maximum max_iterations goes to the points that escape at once
C5_BoundedIsDarkest ==
    JustStored =>
        /\ gray + iterations = max_iterations
        /\ iterations = max_iterations => gray = 0
        /\ iterations < max_iterations => gray > 0
        /\ iterations = 0 => gray = max_iterations

\* C5 witness: a stored pixel whose point never escaped
C5_Witness == JustStored /\ iterations = max_iterations /\ checks = max_iterations /\ gray = 0

\* every worker of the row-partitioned traversal has finished
AllWorkersDone == \A w \in Workers : wpc[w] = "done"

\* C6: in the row-partitioned traversal no offset is ever written by two workers or
\* twice, and once all workers have finished the buffer is the sequential one: byte
\* pixel_byte(px, py) at offset py * pixels_wide + px
C6_RowPartitionIndependent ==
    /\ \A o \in DOMAIN writers : Cardinality(writers[o]) <= 1 /\ writes[o] <= 1
    /\ AllWorkersDone =>
          /\ DOMAIN image = 0 .. pixels_wide * pixels_wide - 1
          /\ \A px \in 0 .. pixels_wide - 1 : \A py \in 0 .. pixels_wide - 1 :
                /\ image[py * pixels_wide + px] = pixel_byte(px, py)
                /\ writers[py * pixels_wide + px] = {owner[py]}

\* C6 witness: all workers finished, each of the two having written some row
C6_Witness ==
    /\ AllWorkersDone
    /\ \A w \in Workers : \E o \in DOMAIN writers : writers[o] = {w}
    /\ \E o \in DOMAIN image : image[o] # image[0]

\* C7: an evaluator call makes at most max_iterations bound checks and updates, and
\* the generator ends only by returning, after pixels_wide^2 evaluator calls
C7_TerminatesAfterAllPixels ==
    /\ checks <= max_iterations
    /\ updates <= max_iterations
    /\ pc \notin {"alloc_failed", "trapped", "crashed"}
    /\ pc = "done" => calls = pixels_wide * pixels_wide

\* C8: a call on a point c with |c| > bound and max_iterations >= 1 never updates z,
\* and returns 0
C8_ImmediateEscape ==
    (Escaped(z0, size) /\ max_iterations >= 1) =>
        /\ updates = 0
        /\ Returned => iterations = 0 /\ checks = 1

\* C8 witness: the call of the specification's example has returned: bound 2, c = (3, 0)
C8_Witness == Returned /\ z0 = <<3, 0>> /\ size = 2 /\ iterations = 0

\* the mapper has just been applied to the pixel (x, y): z0 is the mapped point
JustMapped == pc = "eval" /\ i = 0 /\ checks = 0

\* C9 as claimed: for every pixels_wide, the pixel index pixels_wide / 2 maps to the centre
C9_CentrePixelMapsToCentre ==
    JustMapped =>
        /\ x = pixels_wide \div 2 => z0[1] = center_x
        /\ y = pixels_wide \div 2 => z0[2] = center_y

\* C9 as amended: for every even pixels_wide, the pixel index pixels_wide / 2 maps to
\* the centre
C9_CentrePixelOfEvenGrid ==
    (JustMapped /\ pixels_wide % 2 = 0) =>
        /\ x = pixels_wide \div 2 => z0[1] = center_x
        /\ y = pixels_wide \div 2 => z0[2] = center_y

\* C9 witness: the centre pixel of an even grid has been mapped
C9_Witness ==
    /\ JustMapped
    /\ pixels_wide % 2 = 0
    /\ x = pixels_wide \div 2
    /\ y = pixels_wide \div 2

\* C10: the byte stored for a pixel is its gray modulo 256; it is the gray itself when
\* max_iterations <= 255, and a gray above 255 is stored as gray - 256
C10_ModularNarrowing ==
    /\ JustStored =>
          /\ image[offset] = gray % UINT8_RANGE
          /\ max_iterations <= UINT8_RANGE - 1 => image[offset] = gray
          /\ gray > UINT8_RANGE - 1 => image[offset] = gray - UINT8_RANGE
    /\ \A t \in grays :
          image[t[2] * pixels_wide + t[1]] = t[3] % UINT8_RANGE

\* C10 witness: max_iterations > 255 and two stored pixels of different gray hold the
\* same byte
C10_Witness ==
    /\ max_iterations > UINT8_RANGE - 1
    /\ \E s \in grays : \E t \in grays :
          /\ s[3] # t[3]
          /\ image[s[2] * pixels_wide + s[1]] = image[t[2] * pixels_wide + t[1]]

====
